---- MODULE Spec2Model ----
(***************************************************************************)
(* A model of srt-processor: src/run.py (the batch driver, the chunker,    *)
(* the fallback/retry dispatcher and the chunked orchestrator) and         *)
(* src/providers (the construction and the release of provider handles).   *)
(*                                                                         *)
(* Text is a sequence of one-character strings.  The full-width characters *)
(* are written by name: "FWSTOP" is U+3002, "FWBANG" is U+FF01 and "FWQM"  *)
(* is U+FF1F.  "\n" is the line feed.                                      *)
(***************************************************************************)
EXTENDS Integers, Sequences, FiniteSets, TLC

\* ------------------------------------------------------------------------
\* Bounds of the model
\* ------------------------------------------------------------------------
MaxProviders == 3     \* most provider handles a configuration gives
MaxRetries == 3       \* largest configured rate_limit.max_retries
MaxFiles == 3         \* largest number of .srt files in input/

\* run.py:18.  The program's value is 12000; the model keeps the comparison
\* and scales the threshold so that the input files below cross it.
MAX_CHUNK_SIZE == 4

\* ------------------------------------------------------------------------
\* Characters and strings
\* ------------------------------------------------------------------------
Whitespace == {" ", "\n"}

Digits == {"0", "1", "2", "3", "4", "5", "6", "7", "8", "9"}

\* the character class [。.!?] of the chunker's pattern (run.py:49)
SplitTerminators == {"FWSTOP", ".", "!", "?"}

IsSpace(c) == c \in Whitespace

RECURSIVE lstrip(_)
lstrip(s) ==
    IF s = <<>> THEN <<>>
    ELSE IF IsSpace(Head(s)) THEN lstrip(Tail(s)) ELSE s

RECURSIVE rstrip(_)
rstrip(s) ==
    IF s = <<>> THEN <<>>
    ELSE IF IsSpace(s[Len(s)]) THEN rstrip(SubSeq(s, 1, Len(s) - 1)) ELSE s

\* str.strip()
strip(s) == rstrip(lstrip(s))

\* sep.join(parts)
RECURSIVE join(_, _)
join(sep, parts) ==
    IF parts = <<>> THEN <<>>
    ELSE IF Len(parts) = 1 THEN parts[1]
    ELSE parts[1] \o sep \o join(sep, Tail(parts))

\* s.split(sep) for a one-character separator: the pieces between the
\* separators, the empty ones included
RECURSIVE str_split_from(_, _, _, _)
str_split_from(s, sep, start, p) ==
    IF p > Len(s) THEN << SubSeq(s, start, Len(s)) >>
    ELSE IF s[p] = sep
         THEN << SubSeq(s, start, p - 1) >> \o str_split_from(s, sep, p + 1, p + 1)
         ELSE str_split_from(s, sep, start, p + 1)

str_split(s, sep) == str_split_from(s, sep, 1, 1)

\* str.isdigit()
isdigit(s) == s # <<>> /\ \A k \in 1..Len(s) : s[k] \in Digits

\* re.match(r'\d{2}:\d{2}:\d{2}', line)
matches_timestamp(line) ==
    /\ Len(line) >= 8
    /\ \A k \in {1, 2, 4, 5, 7, 8} : line[k] \in Digits
    /\ \A k \in {3, 6} : line[k] = ":"

\* ------------------------------------------------------------------------
\* extract_text_from_srt (run.py:31-45)
\* ------------------------------------------------------------------------
RECURSIVE keep_text_lines(_)
keep_text_lines(lines) ==
    IF lines = <<>> THEN <<>>
    ELSE LET line == strip(Head(lines))
             rest == keep_text_lines(Tail(lines))
         IN  IF line = <<>> THEN rest
             ELSE IF isdigit(line) THEN rest
             ELSE IF matches_timestamp(line) THEN rest
             ELSE << line >> \o rest

extract_text_from_srt(srt_content) ==
    join(<< "\n" >>, keep_text_lines(str_split(strip(srt_content), "\n")))

\* ------------------------------------------------------------------------
\* split_text_into_chunks (run.py:48-69)
\* ------------------------------------------------------------------------
\* the first index >= p of text that holds no whitespace (Len(text) + 1 when
\* there is none): the end of the greedy \s*
RECURSIVE skip_space(_, _)
skip_space(text, p) ==
    IF p > Len(text) THEN p
    ELSE IF IsSpace(text[p]) THEN skip_space(text, p + 1) ELSE p

\* re.split(r'(?<=[。.!?])\s*', text): a split right after every terminator,
\* swallowing the whitespace that follows it; the piece after the last
\* split is kept even when it is empty
RECURSIVE re_split_from(_, _, _)
re_split_from(text, start, p) ==
    IF p > Len(text) THEN << SubSeq(text, start, Len(text)) >>
    ELSE IF text[p] \in SplitTerminators
         THEN LET e == skip_space(text, p + 1)
              IN  << SubSeq(text, start, p) >> \o re_split_from(text, e, e)
         ELSE re_split_from(text, start, p + 1)

re_split(text) == re_split_from(text, 1, 1)

\* chunk_loop without the separator in the size kept (sent_size in the place
\* of sent_size + 1)
RECURSIVE chunk_loop_NoSeparator(_, _, _, _, _)
chunk_loop_NoSeparator(sentences, chunks, current_chunk, current_size, max_size) ==
    IF sentences = <<>>
    THEN IF current_chunk # <<>>
         THEN Append(chunks, join(<< " " >>, current_chunk))
         ELSE chunks
    ELSE LET sentence == strip(Head(sentences))
             sent_size == Len(sentence)
             rest == Tail(sentences)
         IN  IF sentence = <<>>
             THEN chunk_loop_NoSeparator(rest, chunks, current_chunk,
                                         current_size, max_size)
             ELSE IF current_size + sent_size > max_size /\ current_chunk # <<>>
                  THEN chunk_loop_NoSeparator(rest,
                                  Append(chunks, join(<< " " >>, current_chunk)),
                                  << sentence >>, sent_size, max_size)
                  ELSE chunk_loop_NoSeparator(rest, chunks,
                                  Append(current_chunk, sentence),
                                  current_size + sent_size, max_size)

\* chunk_loop without run.py:66-67: the chunk being filled when the
\* sentences end is dropped
RECURSIVE chunk_loop_NoFlush(_, _, _, _, _)
chunk_loop_NoFlush(sentences, chunks, current_chunk, current_size, max_size) ==
    IF sentences = <<>>
    THEN chunks
    ELSE LET sentence == strip(Head(sentences))
             sent_size == Len(sentence)
             rest == Tail(sentences)
         IN  IF sentence = <<>>
             THEN chunk_loop_NoFlush(rest, chunks, current_chunk,
                                     current_size, max_size)
             ELSE IF current_size + sent_size + 1 > max_size /\ current_chunk # <<>>
                  THEN chunk_loop_NoFlush(rest,
                                  Append(chunks, join(<< " " >>, current_chunk)),
                                  << sentence >>, sent_size + 1, max_size)
                  ELSE chunk_loop_NoFlush(rest, chunks,
                                  Append(current_chunk, sentence),
                                  current_size + sent_size + 1, max_size)

\* chunk_loop with `>=` in the place of `>` in the test of run.py:58
RECURSIVE chunk_loop_GreaterEqual(_, _, _, _, _)
chunk_loop_GreaterEqual(sentences, chunks, current_chunk, current_size, max_size) ==
    IF sentences = <<>>
    THEN IF current_chunk # <<>>
         THEN Append(chunks, join(<< " " >>, current_chunk))
         ELSE chunks
    ELSE LET sentence == strip(Head(sentences))
             sent_size == Len(sentence)
             rest == Tail(sentences)
         IN  IF sentence = <<>>
             THEN chunk_loop_GreaterEqual(rest, chunks, current_chunk,
                                          current_size, max_size)
             ELSE IF current_size + sent_size + 1 >= max_size /\ current_chunk # <<>>
                  THEN chunk_loop_GreaterEqual(rest,
                                  Append(chunks, join(<< " " >>, current_chunk)),
                                  << sentence >>, sent_size + 1, max_size)
                  ELSE chunk_loop_GreaterEqual(rest, chunks,
                                  Append(current_chunk, sentence),
                                  current_size + sent_size + 1, max_size)

\* the loop of run.py:54-64 over the sentences that are left, and the
\* closing of the last chunk (run.py:66-69)
RECURSIVE chunk_loop(_, _, _, _, _)
chunk_loop(sentences, chunks, current_chunk, current_size, max_size) ==
    IF sentences = <<>>
    THEN IF current_chunk # <<>>
         THEN Append(chunks, join(<< " " >>, current_chunk))
         ELSE chunks
    ELSE LET sentence == strip(Head(sentences))
             sent_size == Len(sentence)
             rest == Tail(sentences)
         IN  IF sentence = <<>>
             THEN chunk_loop(rest, chunks, current_chunk, current_size, max_size)
             ELSE IF current_size + sent_size + 1 > max_size /\ current_chunk # <<>>
                  THEN chunk_loop(rest,
                                  Append(chunks, join(<< " " >>, current_chunk)),
                                  << sentence >>, sent_size + 1, max_size)
                  ELSE chunk_loop(rest, chunks,
                                  Append(current_chunk, sentence),
                                  current_size + sent_size + 1, max_size)

split_text_into_chunks(text, max_size) ==
    chunk_loop(re_split(text), <<>>, <<>>, 0, max_size)

\* ------------------------------------------------------------------------
\* Inputs of a run: the configuration and the files of input/
\* ------------------------------------------------------------------------
\* the backends create_provider knows (providers/__init__.py:8-11)
KnownProviders == {"siliconflow", "alibaba"}

\* an entry of config['providers'] is a name and the enabled flag.  The
\* configurations of the model list the two backends in turn, all enabled,
\* and may end with an entry that gives no handle: a disabled one, or one
\* that names a backend create_provider does not know
ConfiguredEntry(k) ==
    [name |-> IF k % 2 = 1 THEN "siliconflow" ELSE "alibaba", enabled |-> TRUE]

NoHandleEntries ==
    { <<>>,
      << [name |-> "alibaba", enabled |-> FALSE] >>,
      << [name |-> "other", enabled |-> TRUE] >> }

ProviderConfigs ==
    { [k \in 1..n |-> ConfiguredEntry(k)] \o tl :
        n \in 0..MaxProviders, tl \in NoHandleEntries }

\* get_enabled_providers (providers/__init__.py:15-23): the names of the
\* handles constructed, in the order of the configuration; a disabled entry
\* and an entry create_provider rejects (ValueError) give no handle
RECURSIVE get_enabled_providers(_)
get_enabled_providers(entries) ==
    IF entries = <<>> THEN <<>>
    ELSE LET p == Head(entries)
             rest == get_enabled_providers(Tail(entries))
         IN  IF p.enabled /\ p.name \in KnownProviders
             THEN << p.name >> \o rest
             ELSE rest

\* config['processing']['prompt'], a text around the {content} placeholder
PromptPrefix == << "Q", ":" >>
PromptSuffix == << "#" >>

\* prompt_template.format(content=...)
format_prompt(content) == PromptPrefix \o content \o PromptSuffix

\* the subtitle files a run may find, as their lines: an empty file, one
\* without text, one with a short text, one whose text has exactly
\* MAX_CHUNK_SIZE characters, and two with longer texts
Timestamp == << "0", "0", ":", "0", "0", ":", "0", "1" >>

SrtLines ==
    { <<>>,
      << << "1" >>, Timestamp, << " " >> >>,
      << << "1" >>, Timestamp, << "a", "." >> >>,
      << << "1" >>, Timestamp, << "a", ".", "b", "?" >>, <<>> >>,
      << << "1" >>, Timestamp, << " ", "a", "." >>, <<>>,
         << "2" >>, Timestamp, << "b", "!" >>, <<>> >>,
      << << ".", " ", "." >>, << "a", "b", "." >>, << "c" >> >> }

SrtFiles == { join(<< "\n" >>, ls) : ls \in SrtLines }

\* what a failed provider.process raises
Errors == {"timeout", "http_error"}

\* what a successful provider.process returns (providers/base.py:43-52):
\* the backend's answer, which the program never inspects; the model takes
\* it to be determined by the provider asked and by the prompt
response(pidx, prompt) == << "<", "p" >> \o << ToString(pidx) >> \o prompt \o << ">" >>

\* ------------------------------------------------------------------------
\* State
\* ------------------------------------------------------------------------
VARIABLES
    pc,             \* where main() stands
    providers,      \* main: the names of the provider handles, in order
    max_retries,    \* config['rate_limit']['max_retries']
    include_title,  \* config['processing']['include_filename_as_title']
    nfiles,         \* main: len(srt_files)
    i,              \* main: the index of the file in hand, from 1
    raw_text,       \* main: the text extracted from the file in hand
    status,         \* per file: "pending", "skipped", "failed" or "done"
    output,         \* the files of output/ written by this run
    last_write,     \* what main's last step wrote into a file of output/
    handle,         \* per provider handle: "open", "closed", "close_failed"
    closing,        \* main: the index of the handle the finally block is at
    finalized,      \* the handles whose __del__ has run
    chunks,         \* process_large_text: the chunks
    ci,             \* process_large_text: the index of the chunk, from 1
    results,        \* process_large_text: the results collected
    last_provider,  \* process_large_text: last_provider
    plt_return,     \* what process_large_text returned to main
    chunker_calls,  \* calls of split_text_into_chunks for the file in hand
    dispatched,     \* the prompts dispatched for the file in hand, in order
    rate_sleeps,    \* rate-window pauses taken inside process_large_text
    max_size,       \* split_text_into_chunks: max_size
    ret,            \* process_with_fallback: the caller, "small" or "chunk"
    prompt,         \* process_with_fallback: prompt
    pidx,           \* process_with_fallback: the index of provider, from 1
    attempt,        \* process_with_fallback: attempt
    outcome,        \* how the last process_with_fallback call ended
    invoked,        \* per provider: calls of process() in this dispatch
    retry_sleeps,   \* per provider: retry pauses taken in this dispatch
    reports,        \* per provider: error lines printed in this dispatch
    console         \* the error line last printed in this dispatch

mainVars == << providers, max_retries, include_title, nfiles, i,
               raw_text, status, output, last_write, handle, closing,
               finalized >>
pltVars == << chunks, ci, results, last_provider, plt_return, chunker_calls,
              dispatched, rate_sleeps, max_size >>
pwfVars == << ret, prompt, pidx, attempt, outcome, invoked, retry_sleeps,
              reports, console >>
vars == << pc, mainVars, pltVars, pwfVars >>

NoOutcome == [kind |-> "none", result |-> <<>>, provider |-> "None",
              args |-> <<>>]
NoReturn == [kind |-> "none", text |-> <<>>, provider |-> "None"]
NoLine == [provider |-> "None", error |-> "None"]
NoWrite == [file |-> 0, title |-> FALSE, text |-> <<>>]

NP == Len(providers)

Init ==
    /\ pc = "main"
    /\ providers = <<>>
    /\ max_retries = 1
    /\ include_title = TRUE
    /\ nfiles = 0
    /\ i = 0
    /\ raw_text = <<>>
    /\ status = <<>>
    /\ output = {}
    /\ last_write = NoWrite
    /\ handle = <<>>
    /\ closing = 0
    /\ finalized = {}
    /\ chunks = <<>>
    /\ ci = 0
    /\ results = <<>>
    /\ last_provider = "None"
    /\ plt_return = NoReturn
    /\ chunker_calls = 0
    /\ dispatched = <<>>
    /\ rate_sleeps = 0
    /\ max_size = MAX_CHUNK_SIZE
    /\ ret = "none"
    /\ prompt = <<>>
    /\ pidx = 0
    /\ attempt = 0
    /\ outcome = NoOutcome
    /\ invoked = <<>>
    /\ retry_sleeps = <<>>
    /\ reports = <<>>
    /\ console = NoLine

\* ------------------------------------------------------------------------
\* main (run.py:121-181)
\* ------------------------------------------------------------------------
\* where main goes after the body of the loop for file i: the pause of
\* run.py:172-173 when files are left, the finally block when none is
AfterFile == IF i < nfiles THEN "file_sleep" ELSE "finally"

\* the finally block starts at the first handle
AfterFileClosing == IF i < nfiles THEN 0 ELSE 1

\* the locals of process_large_text and of process_with_fallback are gone
\* once the call has returned or has been left by an exception
PLT_Gone ==
    /\ chunks' = <<>>
    /\ ci' = 0
    /\ results' = <<>>
    /\ last_provider' = "None"
    /\ plt_return' = NoReturn
    /\ chunker_calls' = 0
    /\ dispatched' = <<>>
    /\ rate_sleeps' = 0

PWF_Gone ==
    /\ ret' = "none"
    /\ prompt' = <<>>
    /\ pidx' = 0
    /\ attempt' = 0
    /\ outcome' = NoOutcome
    /\ invoked' = <<>>
    /\ retry_sleeps' = <<>>
    /\ reports' = <<>>
    /\ console' = NoLine

\* run.py:122-141: the configuration is loaded, the handles are built and
\* input/ is listed; main returns at once when there is no handle
\* (run.py:125-127) or no file (run.py:133-135)
Main_Start ==
    /\ pc = "main"
    /\ \E entries \in ProviderConfigs, mr \in 1..MaxRetries,
          title \in BOOLEAN, n \in 0..MaxFiles :
         LET ps == get_enabled_providers(entries) IN
         /\ providers' = ps
         /\ handle' = [k \in 1..Len(ps) |-> "open"]
         /\ max_retries' = mr
         /\ include_title' = title
         /\ IF ps = <<>>
            THEN /\ pc' = "returned"
                 /\ UNCHANGED << nfiles, i, status >>
            ELSE /\ nfiles' = n
                 /\ status' = [k \in 1..n |-> "pending"]
                 /\ IF n = 0
                    THEN pc' = "returned" /\ UNCHANGED i
                    ELSE pc' = "file" /\ i' = 1
    /\ UNCHANGED << raw_text, output, last_write, closing, finalized >>
    /\ UNCHANGED << pltVars, pwfVars >>

\* Main_ReadFile without the test of run.py:151: a file without text is
\* handed to process_large_text as any other
Main_ReadFile_NoSkip ==
    /\ pc = "file"
    /\ \E srt_content \in SrtFiles :
         /\ raw_text' = extract_text_from_srt(srt_content)
         /\ pc' = "process_large_text"
         /\ UNCHANGED << status, i, closing >>
    /\ last_write' = NoWrite
    /\ UNCHANGED << providers, max_retries, include_title, nfiles, output,
                    handle, finalized >>
    /\ UNCHANGED << pltVars, pwfVars >>

\* run.py:144-155: the next file is read and its text extracted; a file
\* without text is skipped by `continue`, which also skips the pause of
\* run.py:172-173
Main_ReadFile ==
    /\ pc = "file"
    /\ \E srt_content \in SrtFiles :
         LET text == extract_text_from_srt(srt_content) IN
         IF strip(text) = <<>>
         THEN /\ status' = [status EXCEPT ![i] = "skipped"]
              /\ raw_text' = <<>>
              /\ IF i < nfiles
                 THEN pc' = "file" /\ i' = i + 1 /\ closing' = 0
                 ELSE pc' = "finally" /\ i' = i /\ closing' = 1
         ELSE /\ raw_text' = text
              /\ pc' = "process_large_text"
              /\ UNCHANGED << status, i, closing >>
    /\ last_write' = NoWrite
    /\ UNCHANGED << providers, max_retries, include_title, nfiles, output,
                    handle, finalized >>
    /\ UNCHANGED << pltVars, pwfVars >>

\* run.py:157-167 and 172: the text process_large_text returned is written
\* to output/, under the title when the configuration asks for one
Main_Write ==
    /\ pc = "write"
    /\ UNCHANGED max_size
    /\ output' = output \cup {i}
    /\ last_write' = [file |-> i, title |-> include_title,
                      text |-> plt_return.text]
    /\ status' = [status EXCEPT ![i] = "done"]
    /\ pc' = AfterFile
    /\ closing' = AfterFileClosing
    /\ raw_text' = <<>>
    /\ PLT_Gone
    /\ PWF_Gone
    /\ UNCHANGED << providers, max_retries, include_title, nfiles, i,
                    handle, finalized >>

\* Main_Except writing what the chunks before the failure gave
Main_Except_WritesPartial ==
    /\ pc = "except"
    /\ UNCHANGED max_size
    /\ status' = [status EXCEPT ![i] = "failed"]
    /\ output' = output \cup {i}
    /\ last_write' = [file |-> i, title |-> include_title,
                      text |-> join(<< "\n", "\n" >>, results)]
    /\ pc' = AfterFile
    /\ closing' = AfterFileClosing
    /\ raw_text' = <<>>
    /\ PLT_Gone
    /\ PWF_Gone
    /\ UNCHANGED << providers, max_retries, include_title, nfiles, i,
                    handle, finalized >>

\* Main_Except without the inner try block: the exception leaves the loop
\* and main goes to the finally block
Main_Except_Aborts ==
    /\ pc = "except"
    /\ UNCHANGED max_size
    /\ status' = [status EXCEPT ![i] = "failed"]
    /\ pc' = "finally"
    /\ closing' = 1
    /\ raw_text' = <<>>
    /\ PLT_Gone
    /\ PWF_Gone
    /\ UNCHANGED << providers, max_retries, include_title, nfiles, i,
                    output, last_write, handle, finalized >>

\* run.py:169-172: the exception that left process_large_text is caught
\* and reported, and the loop goes on
Main_Except ==
    /\ pc = "except"
    /\ UNCHANGED max_size
    /\ status' = [status EXCEPT ![i] = "failed"]
    /\ pc' = AfterFile
    /\ closing' = AfterFileClosing
    /\ raw_text' = <<>>
    /\ PLT_Gone
    /\ PWF_Gone
    /\ UNCHANGED << providers, max_retries, include_title, nfiles, i,
                    output, last_write, handle, finalized >>

\* run.py:173: the rate-window pause between two files
Main_FileSleep ==
    /\ pc = "file_sleep"
    /\ i' = i + 1
    /\ pc' = "file"
    /\ last_write' = NoWrite
    /\ UNCHANGED << providers, max_retries, include_title, nfiles, raw_text,
                    status, output, handle, closing, finalized >>
    /\ UNCHANGED << pltVars, pwfVars >>

\* run.py:174-181: one turn of the loop of the finally block: close() is
\* called on the handle, and what it raises is swallowed
Main_Close ==
    /\ pc = "finally"
    /\ \E ok \in BOOLEAN :
         handle' = [handle EXCEPT ![closing] =
                        IF ok THEN "closed" ELSE "close_failed"]
    /\ IF closing < NP
       THEN closing' = closing + 1 /\ pc' = "finally"
       ELSE closing' = closing /\ pc' = "done"
    /\ last_write' = NoWrite
    /\ UNCHANGED << providers, max_retries, include_title, nfiles, i,
                    raw_text, status, output, finalized >>
    /\ UNCHANGED << pltVars, pwfVars >>

\* providers/base.py:32-36: once main has returned, the collector may run
\* the __del__ of a handle, which calls close() and swallows what it raises;
\* nothing says when, or whether, it does
Provider_Del ==
    /\ pc \in {"returned", "done"}
    /\ \E k \in 1..NP :
         /\ k \notin finalized
         /\ finalized' = finalized \cup {k}
         /\ \E ok \in BOOLEAN :
              handle' = [handle EXCEPT ![k] = IF ok THEN "closed"
                                              ELSE IF handle[k] = "closed"
                                                   THEN "closed"
                                                   ELSE "close_failed"]
    /\ UNCHANGED << pc, providers, max_retries, include_title, nfiles, i,
                    raw_text, status, output, last_write, closing >>
    /\ UNCHANGED << pltVars, pwfVars >>

\* ------------------------------------------------------------------------
\* process_with_fallback (run.py:72-91)
\* ------------------------------------------------------------------------
\* Dispatch resuming at the provider that served the previous chunk
Dispatch_Sticky(a_prompt, a_caller) ==
    /\ prompt' = a_prompt
    /\ ret' = a_caller
    /\ pidx' = IF last_provider = "None" THEN 1
               ELSE CHOOSE k \in 1..NP : providers[k] = last_provider
    /\ attempt' = 0
    /\ outcome' = NoOutcome
    /\ invoked' = [k \in 1..NP |-> 0]
    /\ retry_sleeps' = [k \in 1..NP |-> 0]
    /\ reports' = [k \in 1..NP |-> 0]
    /\ console' = NoLine
    /\ dispatched' = Append(dispatched, a_prompt)
    /\ pc' = "try"

\* the call process_with_fallback(providers, a_prompt, config) by a_caller:
\* the loops start at the first provider and at attempt 0 (run.py:73-78)
Dispatch(a_prompt, a_caller) ==
    /\ prompt' = a_prompt
    /\ ret' = a_caller
    /\ pidx' = 1
    /\ attempt' = 0
    /\ outcome' = NoOutcome
    /\ invoked' = [k \in 1..NP |-> 0]
    /\ retry_sleeps' = [k \in 1..NP |-> 0]
    /\ reports' = [k \in 1..NP |-> 0]
    /\ console' = NoLine
    /\ dispatched' = Append(dispatched, a_prompt)
    /\ pc' = "try"

\* the exception raised with the list of the providers in the place of the
\* message
AllProvidersFailed_Names == providers

\* the exception of run.py:91
AllProvidersFailed == << "All providers failed" >>

\* PWF_Success with `break` in the place of `return`: the answer is kept
\* and the call goes on with the next provider
PWF_Success_Break ==
    /\ pc = "try"
    /\ invoked' = [invoked EXCEPT ![pidx] = @ + 1]
    /\ outcome' = [kind |-> "ok", result |-> response(pidx, prompt),
                   provider |-> providers[pidx], args |-> <<>>]
    /\ IF pidx < NP
       THEN pc' = "try" /\ pidx' = pidx + 1 /\ attempt' = 0
       ELSE /\ pc' = IF ret = "small" THEN "small_return" ELSE "chunk_return"
            /\ UNCHANGED << pidx, attempt >>
    /\ UNCHANGED << ret, prompt, retry_sleeps, reports, console >>
    /\ UNCHANGED << mainVars, pltVars >>

\* run.py:80-82: the provider answers and the call returns its answer with
\* the provider's name
PWF_Success ==
    /\ pc = "try"
    /\ invoked' = [invoked EXCEPT ![pidx] = @ + 1]
    /\ outcome' = [kind |-> "ok", result |-> response(pidx, prompt),
                   provider |-> providers[pidx], args |-> <<>>]
    /\ pc' = IF ret = "small" THEN "small_return" ELSE "chunk_return"
    /\ UNCHANGED << ret, prompt, pidx, attempt, retry_sleeps, reports,
                    console >>
    /\ UNCHANGED << mainVars, pltVars >>

\* PWF_Failure without the retry loop: a failure sends the call to the
\* next provider at once
PWF_Failure_NoRetry ==
    /\ pc = "try"
    /\ invoked' = [invoked EXCEPT ![pidx] = @ + 1]
    /\ reports' = [reports EXCEPT ![pidx] = @ + 1]
    /\ \E e \in Errors : console' = [provider |-> providers[pidx], error |-> e]
    /\ IF pidx < NP
       THEN /\ pc' = "try"
            /\ pidx' = pidx + 1
            /\ attempt' = 0
            /\ UNCHANGED outcome
       ELSE /\ pc' = "except"
            /\ outcome' = [kind |-> "raised", result |-> <<>>,
                           provider |-> "None",
                           args |-> << "All providers failed" >>]
            /\ UNCHANGED << pidx, attempt >>
    /\ UNCHANGED << ret, prompt, retry_sleeps >>
    /\ UNCHANGED << mainVars, pltVars >>

\* PWF_Failure with the test `attempt < max_retries`: one pause and one
\* attempt too many on every provider
PWF_Failure_ExtraAttempt ==
    /\ pc = "try"
    /\ invoked' = [invoked EXCEPT ![pidx] = @ + 1]
    /\ reports' = [reports EXCEPT ![pidx] = @ + 1]
    /\ \E e \in Errors : console' = [provider |-> providers[pidx], error |-> e]
    /\ IF attempt < max_retries
       THEN /\ pc' = "retry_sleep"
            /\ UNCHANGED << pidx, attempt, outcome >>
       ELSE IF pidx < NP
            THEN /\ pc' = "try"
                 /\ pidx' = pidx + 1
                 /\ attempt' = 0
                 /\ UNCHANGED outcome
            ELSE /\ pc' = "except"
                 /\ outcome' = [kind |-> "raised", result |-> <<>>,
                                provider |-> "None",
                                args |-> << "All providers failed" >>]
                 /\ UNCHANGED << pidx, attempt >>
    /\ UNCHANGED << ret, prompt, retry_sleeps >>
    /\ UNCHANGED << mainVars, pltVars >>

\* PWF_Failure without the try block: the first exception of a provider
\* leaves the call
PWF_Failure_Unhandled ==
    /\ pc = "try"
    /\ invoked' = [invoked EXCEPT ![pidx] = @ + 1]
    /\ reports' = [reports EXCEPT ![pidx] = @ + 1]
    /\ \E e \in Errors : console' = [provider |-> providers[pidx], error |-> e]
    /\ pc' = "except"
    /\ outcome' = [kind |-> "raised", result |-> <<>>, provider |-> "None",
                   args |-> << "All providers failed" >>]
    /\ UNCHANGED << pidx, attempt >>
    /\ UNCHANGED << ret, prompt, retry_sleeps >>
    /\ UNCHANGED << mainVars, pltVars >>

\* PWF_Failure with the pause taken after every failure: the retry pause
\* also precedes the next provider and the terminal failure
PWF_Failure_AlwaysPauses ==
    /\ pc = "try"
    /\ invoked' = [invoked EXCEPT ![pidx] = @ + 1]
    /\ reports' = [reports EXCEPT ![pidx] = @ + 1]
    /\ \E e \in Errors : console' = [provider |-> providers[pidx], error |-> e]
    /\ IF attempt < max_retries - 1
       THEN /\ pc' = "retry_sleep"
            /\ UNCHANGED << pidx, attempt, outcome, retry_sleeps >>
       ELSE /\ retry_sleeps' = [retry_sleeps EXCEPT ![pidx] = @ + 1]
            /\ IF pidx < NP
               THEN /\ pc' = "try"
                    /\ pidx' = pidx + 1
                    /\ attempt' = 0
                    /\ UNCHANGED outcome
               ELSE /\ pc' = "except"
                    /\ outcome' = [kind |-> "raised", result |-> <<>>,
                                   provider |-> "None",
                                   args |-> << "All providers failed" >>]
                    /\ UNCHANGED << pidx, attempt >>
    /\ UNCHANGED << ret, prompt >>
    /\ UNCHANGED << mainVars, pltVars >>

\* run.py:81-91: the provider raises e, which is printed; the call goes to
\* the retry pause when attempts are left, else to the next provider, and
\* after the last provider it raises
PWF_Failure ==
    /\ pc = "try"
    /\ invoked' = [invoked EXCEPT ![pidx] = @ + 1]
    /\ reports' = [reports EXCEPT ![pidx] = @ + 1]
    /\ \E e \in Errors : console' = [provider |-> providers[pidx], error |-> e]
    /\ IF attempt < max_retries - 1
       THEN /\ pc' = "retry_sleep"
            /\ UNCHANGED << pidx, attempt, outcome >>
       ELSE IF pidx < NP
            THEN /\ pc' = "try"
                 /\ pidx' = pidx + 1
                 /\ attempt' = 0
                 /\ UNCHANGED outcome
            ELSE /\ pc' = "except"
                 /\ outcome' = [kind |-> "raised", result |-> <<>>,
                                provider |-> "None",
                                args |-> AllProvidersFailed]
                 /\ UNCHANGED << pidx, attempt >>
    /\ UNCHANGED << ret, prompt, retry_sleeps >>
    /\ UNCHANGED << mainVars, pltVars >>

\* run.py:88-89 and 78: the retry pause, then the next attempt
PWF_RetrySleep ==
    /\ pc = "retry_sleep"
    /\ retry_sleeps' = [retry_sleeps EXCEPT ![pidx] = @ + 1]
    /\ attempt' = attempt + 1
    /\ pc' = "try"
    /\ UNCHANGED << ret, prompt, pidx, outcome, invoked, reports, console >>
    /\ UNCHANGED << mainVars, pltVars >>

\* ------------------------------------------------------------------------
\* process_large_text (run.py:94-118)
\* ------------------------------------------------------------------------
\* PLT_Enter with the test `len(raw_text) < MAX_CHUNK_SIZE`
PLT_Enter_StrictlyLess ==
    /\ pc = "process_large_text"
    /\ UNCHANGED max_size
    /\ IF Len(raw_text) < MAX_CHUNK_SIZE
       THEN /\ Dispatch(format_prompt(raw_text), "small")
            /\ UNCHANGED << chunks, ci, results, last_provider, plt_return,
                            chunker_calls, rate_sleeps >>
       ELSE /\ chunks' = split_text_into_chunks(raw_text, MAX_CHUNK_SIZE)
            /\ chunker_calls' = chunker_calls + 1
            /\ results' = <<>>
            /\ last_provider' = "None"
            /\ ci' = 1
            /\ pc' = "chunk"
            /\ UNCHANGED << plt_return, dispatched, rate_sleeps >>
            /\ UNCHANGED pwfVars
    /\ UNCHANGED mainVars

\* run.py:95-98 for a text within MAX_CHUNK_SIZE: one prompt from the whole
\* text; run.py:100-105 for a longer one: the text is split
PLT_Enter ==
    /\ pc = "process_large_text"
    /\ UNCHANGED max_size
    /\ IF Len(raw_text) <= MAX_CHUNK_SIZE
       THEN /\ Dispatch(format_prompt(raw_text), "small")
            /\ UNCHANGED << chunks, ci, results, last_provider, plt_return,
                            chunker_calls, rate_sleeps >>
       ELSE /\ chunks' = split_text_into_chunks(raw_text, MAX_CHUNK_SIZE)
            /\ chunker_calls' = chunker_calls + 1
            /\ results' = <<>>
            /\ last_provider' = "None"
            /\ ci' = 1
            /\ pc' = "chunk"
            /\ UNCHANGED << plt_return, dispatched, rate_sleeps >>
            /\ UNCHANGED pwfVars
    /\ UNCHANGED mainVars

\* run.py:98: the dispatch's result and provider are returned as they are
PLT_SmallReturn ==
    /\ pc = "small_return"
    /\ UNCHANGED max_size
    /\ plt_return' = [kind |-> "returned", text |-> outcome.result,
                      provider |-> outcome.provider]
    /\ pc' = "write"
    /\ UNCHANGED << chunks, ci, results, last_provider, chunker_calls,
                    dispatched, rate_sleeps >>
    /\ UNCHANGED << mainVars, pwfVars >>

\* run.py:107-110: the prompt of the next chunk is dispatched; run.py:117-118
\* when no chunk is left: the results are joined and returned
PLT_Chunk ==
    /\ pc = "chunk"
    /\ UNCHANGED max_size
    /\ IF ci <= Len(chunks)
       THEN /\ Dispatch(format_prompt(chunks[ci]), "chunk")
            /\ UNCHANGED plt_return
       ELSE /\ plt_return' = [kind |-> "returned",
                              text |-> join(<< "\n", "\n" >>, results),
                              provider |-> last_provider]
            /\ pc' = "write"
            /\ UNCHANGED dispatched
            /\ UNCHANGED pwfVars
    /\ UNCHANGED << chunks, ci, results, last_provider, chunker_calls,
                    rate_sleeps >>
    /\ UNCHANGED mainVars

\* PLT_Collect putting the result at the front of the list
PLT_Collect_Prepends ==
    /\ pc = "chunk_return"
    /\ UNCHANGED max_size
    /\ results' = << outcome.result >> \o results
    /\ last_provider' = outcome.provider
    /\ IF ci - 1 < Len(chunks) - 1
       THEN pc' = "chunk_sleep" /\ ci' = ci
       ELSE pc' = "chunk" /\ ci' = ci + 1
    /\ PWF_Gone
    /\ UNCHANGED << chunks, plt_return, chunker_calls, dispatched,
                    rate_sleeps >>
    /\ UNCHANGED mainVars

\* PLT_Collect keeping the provider of the first chunk
PLT_Collect_KeepsFirstProvider ==
    /\ pc = "chunk_return"
    /\ UNCHANGED max_size
    /\ results' = Append(results, outcome.result)
    /\ last_provider' = IF last_provider = "None" THEN outcome.provider
                        ELSE last_provider
    /\ IF ci - 1 < Len(chunks) - 1
       THEN pc' = "chunk_sleep" /\ ci' = ci
       ELSE pc' = "chunk" /\ ci' = ci + 1
    /\ PWF_Gone
    /\ UNCHANGED << chunks, plt_return, chunker_calls, dispatched,
                    rate_sleeps >>
    /\ UNCHANGED mainVars

\* PLT_Collect with the test `i < len(chunks)`: the pause follows the last
\* chunk too
PLT_Collect_SleepsAfterLast ==
    /\ pc = "chunk_return"
    /\ UNCHANGED max_size
    /\ results' = Append(results, outcome.result)
    /\ last_provider' = outcome.provider
    /\ pc' = "chunk_sleep"
    /\ ci' = ci
    /\ PWF_Gone
    /\ UNCHANGED << chunks, plt_return, chunker_calls, dispatched,
                    rate_sleeps >>
    /\ UNCHANGED mainVars

\* run.py:110-113: the result of the chunk is collected; the pause follows
\* unless the chunk is the last
PLT_Collect ==
    /\ pc = "chunk_return"
    /\ UNCHANGED max_size
    /\ results' = Append(results, outcome.result)
    /\ last_provider' = outcome.provider
    /\ IF ci - 1 < Len(chunks) - 1
       THEN pc' = "chunk_sleep" /\ ci' = ci
       ELSE pc' = "chunk" /\ ci' = ci + 1
    /\ PWF_Gone
    /\ UNCHANGED << chunks, plt_return, chunker_calls, dispatched,
                    rate_sleeps >>
    /\ UNCHANGED mainVars

\* run.py:114-115: the rate-window pause between two chunks
PLT_ChunkSleep ==
    /\ pc = "chunk_sleep"
    /\ UNCHANGED max_size
    /\ rate_sleeps' = rate_sleeps + 1
    /\ ci' = ci + 1
    /\ pc' = "chunk"
    /\ UNCHANGED << chunks, results, last_provider, plt_return,
                    chunker_calls, dispatched >>
    /\ UNCHANGED << mainVars, pwfVars >>

\* ------------------------------------------------------------------------
\* The program
\* ------------------------------------------------------------------------
Next ==
    \/ Main_Start
    \/ Main_ReadFile
    \/ Main_Write
    \/ Main_Except
    \/ Main_FileSleep
    \/ Main_Close
    \/ Provider_Del
    \/ PLT_Enter
    \/ PLT_SmallReturn
    \/ PLT_Chunk
    \/ PLT_Collect
    \/ PLT_ChunkSleep
    \/ PWF_Success
    \/ PWF_Failure
    \/ PWF_RetrySleep

Spec == Init /\ [][Next]_vars

\* ------------------------------------------------------------------------
\* The chunker alone: split_text_into_chunks(text, max_size) called on any
\* text over Alphabet of at most MaxTextLen characters, with any max_size
\* from 1 to MaxSize
\* ------------------------------------------------------------------------
MaxTextLen == 5       \* longest text given to the chunker
MaxSize == 5          \* largest max_size given to the chunker

\* a letter, an ASCII terminator, a whitespace character and a full-width
\* terminator
Alphabet == {"a", ".", " ", "FWBANG"}

Texts == UNION { [1..n -> Alphabet] : n \in 0..MaxTextLen }

\* the arguments of the call: raw_text is the text, max_size the size
InitChunker ==
    /\ pc = "split_text_into_chunks"
    /\ raw_text \in Texts
    /\ max_size \in 1..MaxSize
    /\ providers = <<>>
    /\ max_retries = 1
    /\ include_title = TRUE
    /\ nfiles = 0
    /\ i = 0
    /\ status = <<>>
    /\ output = {}
    /\ last_write = NoWrite
    /\ handle = <<>>
    /\ closing = 0
    /\ finalized = {}
    /\ chunks = <<>>
    /\ ci = 0
    /\ results = <<>>
    /\ last_provider = "None"
    /\ plt_return = NoReturn
    /\ chunker_calls = 0
    /\ dispatched = <<>>
    /\ rate_sleeps = 0
    /\ ret = "none"
    /\ prompt = <<>>
    /\ pidx = 0
    /\ attempt = 0
    /\ outcome = NoOutcome
    /\ invoked = <<>>
    /\ retry_sleeps = <<>>
    /\ reports = <<>>
    /\ console = NoLine

\* run.py:48-69: the call returns the chunks
Chunker_Call ==
    /\ pc = "split_text_into_chunks"
    /\ chunks' = split_text_into_chunks(raw_text, max_size)
    /\ chunker_calls' = chunker_calls + 1
    /\ pc' = "chunks_returned"
    /\ UNCHANGED << ci, results, last_provider, plt_return, dispatched,
                    rate_sleeps, max_size >>
    /\ UNCHANGED << mainVars, pwfVars >>

NextChunker == Chunker_Call

SpecChunker == InitChunker /\ [][NextChunker]_vars

\* ------------------------------------------------------------------------
\* process_large_text alone: the call process_large_text(text, providers,
\* config) on the texts below, which main's test of run.py:151 does not
\* filter, with up to MaxProviders handles and up to MaxRetries attempts
\* ------------------------------------------------------------------------
\* the text arguments: the empty text, a short one, a text of spaces and
\* one of line feeds longer than MAX_CHUNK_SIZE, and a longer text of three
\* sentences
LargeTextInputs ==
    { <<>>,
      << "a", "." >>,
      << " ", " ", " ", " ", " " >>,
      << "\n", "\n", "\n", "\n", "\n" >>,
      << "a", ".", "b", "!", "c" >> }

InitLargeText ==
    /\ pc = "process_large_text"
    /\ raw_text \in LargeTextInputs
    /\ providers \in { [k \in 1..n |-> ConfiguredEntry(k).name] :
                          n \in 1..MaxProviders }
    /\ max_retries \in 1..MaxRetries
    /\ include_title = TRUE
    /\ nfiles = 1
    /\ i = 1
    /\ status = << "pending" >>
    /\ output = {}
    /\ last_write = NoWrite
    /\ handle = [k \in 1..Len(providers) |-> "open"]
    /\ closing = 0
    /\ finalized = {}
    /\ chunks = <<>>
    /\ ci = 0
    /\ results = <<>>
    /\ last_provider = "None"
    /\ plt_return = NoReturn
    /\ chunker_calls = 0
    /\ dispatched = <<>>
    /\ rate_sleeps = 0
    /\ max_size = MAX_CHUNK_SIZE
    /\ ret = "none"
    /\ prompt = <<>>
    /\ pidx = 0
    /\ attempt = 0
    /\ outcome = NoOutcome
    /\ invoked = <<>>
    /\ retry_sleeps = <<>>
    /\ reports = <<>>
    /\ console = NoLine

\* the steps of the call and of the dispatch calls it makes; the call has
\* returned at "write" and has raised at "except"
NextLargeText ==
    \/ PLT_Enter
    \/ PLT_SmallReturn
    \/ PLT_Chunk
    \/ PLT_Collect
    \/ PLT_ChunkSleep
    \/ PWF_Success
    \/ PWF_Failure
    \/ PWF_RetrySleep

SpecLargeText == InitLargeText /\ [][NextLargeText]_vars

\* ------------------------------------------------------------------------
\* Properties
\* ------------------------------------------------------------------------
\* the places of main at which a process_with_fallback call is under way or
\* has just ended, so that its locals and counters are those of that call
InDispatch == pc \in {"try", "retry_sleep", "small_return", "chunk_return",
                      "except"}

\* the places at which a process_large_text call is under way or has just
\* ended
InLargeText == InDispatch \/ pc \in {"chunk", "chunk_sleep", "write"}

RECURSIVE SumTo(_, _)
SumTo(f, n) == IF n = 0 THEN 0 ELSE f[n] + SumTo(f, n - 1)

Range(f) == { f[k] : k \in DOMAIN f }

\* C1 (fallback order): in a dispatch call a provider is invoked only after
\* every provider before it in the list has been invoked max_retries times
\* and has failed each time (so none of those is invoked again), and no
\* provider after the one in hand has been invoked; a call that succeeds
\* returns the answer of the provider in hand with that provider's name.
C1_FallbackOrder ==
    InDispatch =>
        /\ \A j \in 1..NP : invoked[j] > 0 =>
              \A k \in 1..(j - 1) :
                  invoked[k] = max_retries /\ reports[k] = max_retries
        /\ \A j \in 1..NP : j > pidx => invoked[j] = 0
        /\ outcome.kind = "ok" =>
              /\ invoked[pidx] >= 1
              /\ outcome.result = response(pidx, prompt)
              /\ outcome.provider = providers[pidx]

\* two providers failed every attempt and the third answered
C1_Witness ==
    /\ pc \in {"small_return", "chunk_return"}
    /\ NP = 3
    /\ max_retries = 2
    /\ outcome.kind = "ok"
    /\ outcome.provider = providers[3]
    /\ invoked = << 2, 2, 1 >>

\* C2 (retry bound): no provider is invoked more than max_retries times in a
\* dispatch call; a provider the call has left behind, and every provider
\* when the call fails terminally, was invoked exactly max_retries times
\* with max_retries - 1 retry pauses; a pause precedes each attempt after
\* the first and nothing else; the invocations of a call never exceed
\* (number of providers) x max_retries.
C2_RetryBound ==
    InDispatch =>
        /\ \A k \in 1..NP : invoked[k] <= max_retries
        /\ SumTo(invoked, NP) <= NP * max_retries
        /\ \A k \in 1..NP :
              (k < pidx \/ outcome.kind = "raised") =>
                  /\ invoked[k] = max_retries
                  /\ reports[k] = max_retries
                  /\ retry_sleeps[k] = max_retries - 1
        /\ \A k \in 1..NP :
              retry_sleeps[k] =
                  IF pc = "try" /\ k = pidx THEN invoked[k]
                  ELSE IF invoked[k] = 0 THEN 0 ELSE invoked[k] - 1

\* a dispatch fails terminally after three attempts on each of two providers
C2_Witness ==
    /\ pc = "except"
    /\ NP = 2
    /\ max_retries = 3
    /\ invoked = << 3, 3 >>
    /\ retry_sleeps = << 2, 2 >>

\* C3 (short-circuit on success): a dispatch that has succeeded has returned
\* to its caller with the answer and the name of the provider that
\* answered; that answer came from the last invocation of the call: no
\* pause followed it and no later provider was invoked.  When the first
\* provider answers its first attempt, the call made one invocation.
C3_ShortCircuit ==
    outcome.kind = "ok" =>
        /\ pc \in {"small_return", "chunk_return", "write"}
        /\ outcome.result = response(pidx, prompt)
        /\ outcome.provider = providers[pidx]
        /\ invoked[pidx] = attempt + 1
        /\ reports[pidx] = attempt
        /\ retry_sleeps[pidx] = attempt
        /\ \A k \in 1..NP : k > pidx => invoked[k] = 0 /\ retry_sleeps[k] = 0
        /\ (pidx = 1 /\ attempt = 0) =>
               SumTo(invoked, NP) = 1 /\ SumTo(retry_sleeps, NP) = 0

\* the first provider of three answered its first attempt
C3_Witness ==
    /\ outcome.kind = "ok"
    /\ NP = 3
    /\ pidx = 1
    /\ attempt = 0
    /\ invoked = << 1, 0, 0 >>

\* C4 (only exhaustion is terminal): a dispatch call has raised exactly when
\* every provider of the list has failed max_retries attempts, and main
\* handles an exception exactly then; a failed attempt is followed by the
\* retry pause on the same provider when attempts are left, else by the
\* first attempt on the next provider, else (last attempt of the last
\* provider) by the terminal failure.
C4_RaisedIffExhausted ==
    /\ (outcome.kind = "raised") <=>
           (InDispatch /\ \A k \in 1..NP : reports[k] = max_retries)
    /\ (pc = "except") <=> (outcome.kind = "raised")

C4_FailureStep ==
    (pc = "try" /\ reports' # reports) =>
        \/ /\ attempt < max_retries - 1
           /\ pc' = "retry_sleep"
           /\ pidx' = pidx
           /\ outcome'.kind = "none"
        \/ /\ attempt = max_retries - 1
           /\ pidx < NP
           /\ pc' = "try"
           /\ pidx' = pidx + 1
           /\ attempt' = 0
           /\ outcome'.kind = "none"
        \/ /\ attempt = max_retries - 1
           /\ pidx = NP
           /\ pc' = "except"
           /\ outcome'.kind = "raised"

C4_OnlyExhaustionIsTerminal ==
    [](C4_RaisedIffExhausted) /\ [][C4_FailureStep]_vars

\* a first attempt failed and was absorbed: the call is at the retry pause
C4_Witness ==
    /\ pc = "retry_sleep"
    /\ NP = 2
    /\ pidx = 2
    /\ reports = << 2, 1 >>
    /\ max_retries = 2
    /\ outcome.kind = "none"

C6_AtFailure ==
    /\ (pc = "except" /\ chunker_calls = 1) =>
           /\ Len(dispatched) = ci
           /\ Len(results) = ci - 1
           /\ rate_sleeps = ci - 1
           /\ plt_return.kind = "none"
           /\ i \notin output
           /\ last_write = NoWrite
    /\ \A f \in 1..nfiles : status[f] = "failed" => f \notin output

C6_HandlerStep ==
    pc = "except" =>
        /\ pc' \in {"file_sleep", "finally"}
        /\ status'[i] = "failed"
        /\ output' = output
        /\ last_write' = NoWrite
        /\ dispatched' = <<>>
        /\ rate_sleeps' = 0

C6_ChunkFailureIsTerminal ==
    [](C6_AtFailure) /\ [][C6_HandlerStep]_vars

\* the second of three chunks failed after the first had a result
C6_Witness ==
    /\ pc = "except"
    /\ Len(chunks) = 3
    /\ ci = 2
    /\ Len(results) = 1

\* C7 (batch isolation): a file whose dispatch failed has no file in
\* output/, a file has one exactly when it is done, the files before the
\* one in hand have been dealt with and those after it are still to come,
\* and when main reaches the finally block every file has been dealt with:
\* skipped, failed or done.
C7_BatchIsolation ==
    /\ \A f \in 1..nfiles :
          /\ status[f] = "failed" => f \notin output
          /\ status[f] = "done" <=> f \in output
    /\ pc \in {"finally", "done"} =>
          \A f \in 1..nfiles : status[f] \in {"skipped", "failed", "done"}
    /\ pc \in {"file", "process_large_text", "file_sleep"} \/ InLargeText =>
          \A f \in 1..nfiles :
              /\ f < i => status[f] # "pending"
              /\ f > i => status[f] = "pending"

\* the second of three files failed, the first and the third were written
C7_Witness ==
    /\ pc = "done"
    /\ nfiles = 3
    /\ status = << "done", "failed", "done" >>
    /\ output = {1, 3}

\* C8 (guaranteed release): when main has returned, close() has been called
\* on every handle that was constructed.
C8_GuaranteedRelease ==
    pc \in {"returned", "done"} => \A k \in 1..NP : handle[k] # "open"

\* C9 (small-input bypass): for a text of at most MAX_CHUNK_SIZE characters
\* the chunker is not called, the one prompt dispatched is built from the
\* whole text, no rate-window pause is taken, and what process_large_text
\* returns is that dispatch's result and provider.
C9_SmallInputBypass ==
    (InLargeText /\ Len(raw_text) <= MAX_CHUNK_SIZE) =>
        /\ chunker_calls = 0
        /\ chunks = <<>>
        /\ rate_sleeps = 0
        /\ dispatched = << PromptPrefix \o raw_text \o PromptSuffix >>
        /\ prompt = dispatched[1]
        /\ pc = "write" =>
               /\ outcome.kind = "ok"
               /\ plt_return = [kind |-> "returned", text |-> outcome.result,
                                provider |-> outcome.provider]
               /\ plt_return.text = response(pidx, dispatched[1])

\* a text of exactly MAX_CHUNK_SIZE characters went through
C9_Witness ==
    /\ pc = "write"
    /\ Len(raw_text) = MAX_CHUNK_SIZE
    /\ plt_return.kind = "returned"
    /\ Len(dispatched) = 1

\* text is the parts with a blank line between each two
RECURSIVE IsBlankLineJoin(_, _)
IsBlankLineJoin(text, parts) ==
    IF parts = <<>> THEN text = <<>>
    ELSE LET n == Len(parts[1]) IN
         /\ Len(text) >= n
         /\ SubSeq(text, 1, n) = parts[1]
         /\ IF Len(parts) = 1 THEN Len(text) = n
            ELSE /\ Len(text) >= n + 2
                 /\ text[n + 1] = "\n"
                 /\ text[n + 2] = "\n"
                 /\ IsBlankLineJoin(SubSeq(text, n + 3, Len(text)), Tail(parts))

\* C10 (ordered reassembly): for a text longer than MAX_CHUNK_SIZE the
\* chunks are the chunker's, the k-th prompt dispatched is built from the
\* k-th chunk, a chunk is dispatched only when every chunk before it has
\* its result, the k-th result is a provider's answer to the k-th prompt,
\* and what is returned is the results of all the chunks, in order, with a
\* blank line between each two.
C10_OrderedReassembly ==
    (InLargeText /\ Len(raw_text) > MAX_CHUNK_SIZE) =>
        /\ chunker_calls = 1
        /\ chunks = split_text_into_chunks(raw_text, MAX_CHUNK_SIZE)
        /\ Len(dispatched) <= Len(chunks)
        /\ \A k \in 1..Len(dispatched) :
              dispatched[k] = PromptPrefix \o chunks[k] \o PromptSuffix
        /\ Len(results) \in {Len(dispatched) - 1, Len(dispatched)}
        /\ \A k \in 1..Len(results) :
              \E p \in 1..NP : results[k] = response(p, dispatched[k])
        /\ pc = "write" =>
               /\ Len(results) = Len(chunks)
               /\ Len(dispatched) = Len(chunks)
               /\ plt_return.kind = "returned"
               /\ IsBlankLineJoin(plt_return.text, results)

\* three chunks were answered, the first two by different providers
C10_Witness ==
    /\ pc = "write"
    /\ Len(chunks) = 3
    /\ Len(results) = 3
    /\ results[1] = response(1, dispatched[1])
    /\ results[2] = response(2, dispatched[2])
    /\ chunks[1] # chunks[2]

\* C11 (chunk pacing): while a split text is processed, a rate-window pause
\* has been taken after each chunk that has its result and has a successor,
\* and no other: none before the first chunk, one between the result of
\* chunk k and the dispatch of chunk k + 1, and none after the last; when
\* the n results are returned, n - 1 pauses were taken.
C11_ChunkPacing ==
    (InLargeText /\ chunker_calls = 1) =>
        /\ rate_sleeps =
              IF dispatched = <<>> THEN 0
              ELSE IF pc = "chunk" /\ ci <= Len(chunks) THEN Len(dispatched)
              ELSE Len(dispatched) - 1
        /\ pc = "chunk_sleep" =>
              /\ Len(results) = ci
              /\ ci < Len(chunks)
        /\ (pc = "write" /\ chunks # <<>>) =>
              /\ Len(results) = Len(chunks)
              /\ rate_sleeps = Len(chunks) - 1

\* three chunks were processed with two pauses
C11_Witness ==
    /\ pc = "write"
    /\ Len(chunks) = 3
    /\ Len(results) = 3
    /\ rate_sleeps = 2

\* C12 (the two delays are apart): a step of a dispatch call takes no
\* rate-window pause; a retry pause is taken only right after a failed
\* attempt that leaves attempts on the same provider, and the next attempt
\* on that provider follows it; the first attempt on a provider is preceded
\* by no pause, and no pause lies between the last failure of a provider
\* and what follows it (the next provider or the terminal failure): a
\* provider has at most max_retries - 1 pauses, one fewer than its failures
\* once it is left.
C12_DispatchState ==
    InDispatch =>
        /\ \A k \in 1..NP : retry_sleeps[k] <= max_retries - 1
        /\ (pc = "try" /\ attempt = 0) => retry_sleeps[pidx] = 0
        /\ pc = "retry_sleep" =>
              /\ reports[pidx] = attempt + 1
              /\ attempt < max_retries - 1
        /\ \A k \in 1..NP :
              (k < pidx \/ outcome.kind = "raised") =>
                  retry_sleeps[k] = reports[k] - 1

C12_DispatchStep ==
    /\ pc \in {"try", "retry_sleep"} => rate_sleeps' = rate_sleeps
    /\ (InDispatch /\ pc # "retry_sleep") =>
           (retry_sleeps' = retry_sleeps \/ retry_sleeps' = <<>>)
    /\ pc = "retry_sleep" =>
           /\ pc' = "try"
           /\ pidx' = pidx
           /\ attempt' = attempt + 1
           /\ retry_sleeps' = [retry_sleeps EXCEPT ![pidx] = @ + 1]

C12_DelaysAreApart ==
    [](C12_DispatchState) /\ [][C12_DispatchStep]_vars

\* the second chunk's dispatch has moved to the second provider after two
\* failures and one retry pause on the first, with one rate-window pause
\* taken between the chunks
C12_Witness ==
    /\ pc = "try"
    /\ ci = 2
    /\ rate_sleeps = 1
    /\ max_retries = 2
    /\ pidx = 2
    /\ attempt = 0
    /\ retry_sleeps[1] = 1
    /\ retry_sleeps[2] = 0

\* C17 (provider of a split text): when process_large_text returns the
\* results of a split text, the provider it returns is the one whose answer
\* is the last chunk's result, whichever providers answered the chunks
\* before.
C17_LastChunkProvider ==
    (pc = "write" /\ chunker_calls = 1 /\ results # <<>>) =>
        /\ Len(results) = Len(dispatched)
        /\ \E p \in 1..NP :
              /\ results[Len(results)]
                     = response(p, dispatched[Len(dispatched)])
              /\ plt_return.provider = providers[p]

\* the first chunk was answered by the second provider, the last by the
\* first, and the first provider is the one returned
C17_Witness ==
    /\ pc = "write"
    /\ chunker_calls = 1
    /\ Len(results) >= 2
    /\ results[1] = response(2, dispatched[1])
    /\ results[Len(results)] = response(1, dispatched[Len(dispatched)])
    /\ providers[1] # providers[2]
    /\ plt_return.provider = providers[1]

\* C18 (a file without text is skipped): the step that reads a file either
\* hands a text with a non-blank character to process_large_text, or skips
\* the file: no dispatch call is made, no provider is invoked, nothing is
\* written, and main stands at the next file (at the finally block after
\* the last); a skipped file never has an output, and process_large_text
\* and the dispatcher only ever see a text that is not blank.
C18_State ==
    /\ (pc = "process_large_text" \/ InLargeText) => strip(raw_text) # <<>>
    /\ \A f \in 1..Len(status) : status[f] = "skipped" => f \notin output

C18_ReadStep ==
    pc = "file" =>
        IF pc' = "process_large_text"
        THEN /\ strip(raw_text') # <<>>
             /\ status' = status
        ELSE /\ status' = [status EXCEPT ![i] = "skipped"]
             /\ output' = output
             /\ dispatched' = <<>>
             /\ invoked' = <<>>
             /\ plt_return' = NoReturn
             /\ IF i < nfiles
                THEN pc' = "file" /\ i' = i + 1
                ELSE pc' = "finally"

C18_BlankIsSkipped ==
    [](C18_State) /\ [][C18_ReadStep]_vars

\* the first file was skipped and the batch went on: the second has its
\* output, the first has none
C18_Witness ==
    /\ Len(status) >= 2
    /\ status[1] = "skipped"
    /\ status[2] = "done"
    /\ output = {2}

\* C19 (no memory between chunks): every dispatch call, the one of a later
\* chunk as the one of the first, starts at the first provider with attempt
\* 0 and no invocation counted; so a chunk answered by the second
\* provider's first attempt has had the first provider attempted exactly
\* max_retries times, each a failure, and the second once, whatever
\* answered the chunks before.
C19_AtChunkResult ==
    (pc = "chunk_return" /\ pidx = 2 /\ attempt = 0) =>
        /\ invoked[1] = max_retries
        /\ reports[1] = max_retries
        /\ invoked[2] = 1
        /\ \A k \in 3..NP : invoked[k] = 0

C19_DispatchStep ==
    (dispatched' # dispatched /\ dispatched' # <<>>) =>
        /\ pc' = "try"
        /\ pidx' = 1
        /\ attempt' = 0
        /\ \A k \in 1..NP : invoked'[k] = 0

C19_NoMemoryBetweenChunks ==
    [](C19_AtChunkResult) /\ [][C19_DispatchStep]_vars

\* two providers, the first failing every attempt and the second answering
\* at once: the third chunk, as the two before it, has had max_retries
\* attempts on the first provider and one on the second
C19_Witness ==
    /\ pc = "chunk_return"
    /\ NP = 2
    /\ max_retries = 2
    /\ Len(chunks) = 3
    /\ ci = 3
    /\ results = << response(2, dispatched[1]), response(2, dispatched[2]) >>
    /\ pidx = 2
    /\ invoked = << 2, 1 >>

\* the sentence units of a text: the pieces of the pattern's split,
\* stripped, without the empty ones
RECURSIVE NonEmptyStripped(_)
NonEmptyStripped(pieces) ==
    IF pieces = <<>> THEN <<>>
    ELSE LET u == strip(Head(pieces)) IN
         IF u = <<>> THEN NonEmptyStripped(Tail(pieces))
         ELSE << u >> \o NonEmptyStripped(Tail(pieces))

Units(text) == NonEmptyStripped(re_split(text))

ChunksReturned == pc = "chunks_returned"

\* C13 (chunk size bound): for every text and every max_size >= 1, a chunk
\* split_text_into_chunks returns is at most max_size characters long,
\* unless it is one sentence unit that alone is longer than max_size.
C13_ChunkSizeBound ==
    ChunksReturned =>
        \A k \in 1..Len(chunks) :
            \/ Len(chunks[k]) <= max_size
            \/ \E u \in 1..Len(Units(raw_text)) : chunks[k] = Units(raw_text)[u]

\* a unit longer than max_size is a chunk of its own, after a chunk that
\* fits
C13_Witness ==
    /\ ChunksReturned
    /\ max_size = 2
    /\ raw_text = << ".", " ", "a", "a", "." >>
    /\ chunks = << << "." >>, << "a", "a", "." >> >>
    /\ Len(chunks[2]) > max_size

\* cs is us cut into runs of consecutive units, each run joined by single
\* spaces
RECURSIVE IsGrouping(_, _)
IsGrouping(cs, us) ==
    IF cs = <<>> THEN us = <<>>
    ELSE \E n \in 1..Len(us) :
            /\ cs[1] = join(<< " " >>, SubSeq(us, 1, n))
            /\ IsGrouping(Tail(cs), SubSeq(us, n + 1, Len(us)))

\* C14 (chunk coverage): for every text and max_size, the chunks joined by
\* single spaces are the non-empty stripped sentence units of the text
\* joined by single spaces, in their order; every chunk is a run of whole
\* consecutive units, and no chunk is empty.
C14_ChunkCoverage ==
    ChunksReturned =>
        /\ join(<< " " >>, chunks) = join(<< " " >>, Units(raw_text))
        /\ IsGrouping(chunks, Units(raw_text))
        /\ \A k \in 1..Len(chunks) : chunks[k] # <<>>

\* three units, the blank piece between them dropped, in two chunks
C14_Witness ==
    /\ ChunksReturned
    /\ max_size = 4
    /\ raw_text = << ".", " ", ".", "a", "." >>
    /\ Len(Units(raw_text)) = 3
    /\ chunks = << << ".", " ", "." >>, << "a", "." >> >>

\* C15 as the specification has it: a text of at most max_size characters
\* comes back as a single chunk equal to it.
C15_ShortTextIsOneChunk ==
    (ChunksReturned /\ Len(raw_text) <= max_size) => chunks = << raw_text >>

\* C15 (short text, as the code has it): the chunker has no test of the
\* text's length.  A text without a non-blank character gives no chunk.
\* Otherwise, when the text has a single sentence unit, or its units joined
\* by single spaces are shorter than max_size, the units joined by single
\* spaces are the single chunk; that chunk is the input when the input is
\* already in that form.
C15_OneChunkOfJoinedUnits ==
    ChunksReturned =>
        LET us == Units(raw_text)
            joined == join(<< " " >>, us)
        IN  /\ us = <<>> => chunks = <<>>
            /\ (us # <<>> /\ (Len(us) = 1 \/ Len(joined) < max_size)) =>
                  /\ chunks = << joined >>
                  /\ raw_text = joined => chunks = << raw_text >>

\* a text of two units that is shorter than max_size and in the joined
\* form comes back as it is
C15_Witness ==
    /\ ChunksReturned
    /\ max_size = 5
    /\ raw_text = << "a", ".", " ", "a" >>
    /\ Len(Units(raw_text)) = 2
    /\ chunks = << raw_text >>

\* the ASCII character of a full-width terminator
ToAscii(c) == IF c = "FWBANG" THEN "!" ELSE IF c = "FWQM" THEN "?" ELSE c

AsciiText(text) == [k \in 1..Len(text) |-> ToAscii(text[k])]

\* C16 (full-width terminators): a text longer than max_size whose only
\* terminators are the full-width exclamation or question mark is cut as
\* the same text with '!' and '?' in their place is: the chunks of the one
\* are the chunks of the other, character for character.
C16_FullWidthTerminators ==
    (/\ ChunksReturned
     /\ Len(raw_text) > max_size
     /\ \E k \in 1..Len(raw_text) : raw_text[k] \in {"FWBANG", "FWQM"}
     /\ \A k \in 1..Len(raw_text) :
           raw_text[k] \notin {".", "!", "?", "FWSTOP"})
    => [k \in 1..Len(chunks) |-> AsciiText(chunks[k])]
           = split_text_into_chunks(AsciiText(raw_text), max_size)

\* C20 (the returned provider): whenever process_large_text returns, for
\* any text, the provider name it returns is the name of a provider of the
\* list that was invoked and answered during the call: a dispatch call was
\* made, and the name is not None.
C20_ReturnedProviderSucceeded ==
    pc = "write" =>
        /\ dispatched # <<>>
        /\ plt_return.provider # "None"
        /\ \E p \in 1..NP : plt_return.provider = providers[p]

====
